---- MODULE Spec2Model ----
(***************************************************************************)
(* iwscanlog.py: parse_iw_scan (the tokenizer of an `iw scan` dump and the *)
(* channel / bandwidth resolver) and wifi_channel_plan (the channel plan   *)
(* table it looks channels up in).                                         *)
(*                                                                         *)
(* A text is a sequence of pieces: single characters where the code reads  *)
(* characters (int(), float(), v[0], replace(":", "")), longer pieces      *)
(* where it takes the text whole.  A dict is a function from its keys to   *)
(* its values, a list a sequence, a DataFrame the sequence of its rows.    *)
(***************************************************************************)
EXTENDS Integers, Sequences, FiniteSets, TLC

VARIABLES
    pc,      \* position in parse_iw_scan: start, tokenize, resolve, done, raised
    input,   \* the lines of wlanstr.splitlines() not yet read
    wlans,   \* the list of per-AP dicts
    HTMODE,  \* sub-section mode of the tokenizer (0, 1 = HT, 2 = VHT)
    idx,     \* position of the resolver loop `for net in wlans`
    err,     \* the uncaught exception that ended the call, if any
    df,      \* the returned DataFrame: its rows, in order
    seen     \* history: the lines read since the current block's BSS line, it included

vars == <<pc, input, wlans, HTMODE, idx, err, df, seen>>

----------------------------------------------------------------------------
(* Bounds of the model *)

\* A dump holds at most MaxBlocks "BSS" blocks.
MaxBlocks == 2

----------------------------------------------------------------------------
(* dict helpers *)

Has(d, k) == k \in DOMAIN d

Put(d, k, v) == [x \in (DOMAIN d) \cup {k} |-> IF x = k THEN v ELSE d[x]]

Del(d, k) == [x \in (DOMAIN d) \ {k} |-> d[x]]

----------------------------------------------------------------------------
(* text helpers: int(), float(), str() on sequences of characters *)

Digit == [c \in {"0","1","2","3","4","5","6","7","8","9"} |->
            CASE c = "0" -> 0 [] c = "1" -> 1 [] c = "2" -> 2 [] c = "3" -> 3
              [] c = "4" -> 4 [] c = "5" -> 5 [] c = "6" -> 6 [] c = "7" -> 7
              [] c = "8" -> 8 [] c = "9" -> 9]

RECURSIVE NatOf(_)
NatOf(s) == IF Len(s) = 0 THEN 0
            ELSE 10 * NatOf(SubSeq(s, 1, Len(s) - 1)) + Digit[s[Len(s)]]

\* int(s) of an optionally signed decimal numeral
IntOf(s) == IF Head(s) = "-" THEN 0 - NatOf(Tail(s)) ELSE NatOf(s)

\* the characters of s before its first "."
RECURSIVE BeforeDot(_)
BeforeDot(s) == IF Len(s) = 0 \/ Head(s) = "." THEN <<>>
                ELSE <<Head(s)>> \o BeforeDot(Tail(s))

\* int(float(s)): truncation of a decimal numeral towards zero
IntOfFloat(s) == IntOf(BeforeDot(s))

DigitChar == <<"0","1","2","3","4","5","6","7","8","9">>

\* str(n) for n >= 0
RECURSIVE Str(_)
Str(n) == IF n < 10 THEN <<DigitChar[n + 1]>>
          ELSE Str(n \div 10) \o <<DigitChar[(n % 10) + 1]>>

\* s without its ":" characters: s.replace(':','')
RECURSIVE NoColon(_)
NoColon(s) == IF Len(s) = 0 THEN <<>>
              ELSE (IF Head(s) = ":" THEN <<>> ELSE <<Head(s)>>) \o NoColon(Tail(s))

----------------------------------------------------------------------------
(* wifi_channel_plan *)

\* np.arange(lo, hi + 1, step) as a sequence
Arange(lo, hi, step) == [i \in 1..((hi - lo) \div step + 1) |-> lo + (i - 1) * step]

\* one sub-table: channel, Fc = base + (channel - first) * 5, BW
SubPlan(chans, base, first, bw) ==
    [i \in 1..Len(chans) |->
        [channel |-> chans[i], Fc |-> base + (chans[i] - first) * 5, BW |-> bw]]

\* the rows dropped by the mask of line 100
GapMutant(ch) == ch > 70 /\ ch < 94
InGap(ch) == ch >= 70 /\ ch <= 94

\* df.Fc -/+ df.BW/2 (BW is even: the float quotient is the integer one)
WithEdges(row) ==
    [channel |-> row.channel, Fc |-> row.Fc, BW |-> row.BW,
     fmin |-> row.Fc - row.BW \div 2, fmax |-> row.Fc + row.BW \div 2]

wifi_channel_plan ==
    LET df0 == SubPlan(Arange(1, 14, 1), 2412, 1, 20)
        df1 == SubPlan(Arange(32, 144, 4) \o Arange(149, 177, 4), 5160, 32, 20)
        df2 == SubPlan(Arange(38, 142, 8) \o Arange(151, 175, 8), 5190, 38, 40)
        df3 == SubPlan(Arange(42, 138, 16) \o Arange(155, 171, 16), 5210, 42, 80)
        df4 == SubPlan(Arange(50, 114, 32) \o <<163>>, 5250, 50, 160)
        all == df0 \o df1 \o df2 \o df3 \o df4
        kept == SelectSeq(all, LAMBDA r : ~InGap(r.channel))
    IN  [i \in 1..Len(kept) |-> WithEdges(kept[i])]

\* line 119: the table is built once per call and never written again
fplan == wifi_channel_plan

\* ch in fplan.index
InIndex(plan, ch) == \E i \in 1..Len(plan) : plan[i].channel = ch

\* fplan.loc[ch] (the index is unique: one row)
Loc(plan, ch) == plan[CHOOSE i \in 1..Len(plan) : plan[i].channel = ch]

\* fplan[fplan.Fc == f]: the positions of the rows selected by the mask
FcRows(plan, f) == {i \in 1..Len(plan) : plan[i].Fc = f}

\* fplan[fplan.Fc == f].index[0]: the first selected row's channel
FirstChannelAt(plan, f) ==
    plan[CHOOSE i \in FcRows(plan, f) : \A j \in FcRows(plan, f) : i <= j].channel

----------------------------------------------------------------------------
(* The lines of a dump.  A line, after line.replace("\t", "").rstrip(), is  *)
(* its head (the leading text the tokenizer tests with startswith or ==)   *)
(* and the rest of its characters.                                         *)

Line(h, r) == [head |-> h, rest |-> r]

\* line.startswith(p), for the heads of the dumps below: no head is a proper
\* prefix of another, except the two "center freq segment" heads of line 147
StartsWith(line, p) ==
    IF p = " * center freq segment"
    THEN line.head \in {" * center freq segment 1: ", " * center freq segment 2: "}
    ELSE line.head = p

\* line == p
IsLine(line, p) == line.head = p /\ line.rest = <<>>

\* sub in s, for a piece sub of the text s
Contains(s, sub) == \E i \in 1..Len(s) : s[i] = sub

\* the key k of `k,v = line.split(':')` after the two replace() of lines 142
\* and 148, with its "HT " or "VHT " prefix
AnnotationKey(line) ==
    CASE line.head = " * primary channel: "          -> "HT primary channel"
      [] line.head = " * secondary channel offset: " -> "HT secondary channel offset"
      [] line.head = " * STA channel width: "        -> "HT STA channel width"
      [] line.head = " * channel width: "            -> "VHT channel width"
      [] line.head = " * center freq segment 1: "    -> "VHT center freq segment 1"
      [] line.head = " * center freq segment 2: "    -> "VHT center freq segment 2"

\* tmp = line.replace("Country: ", "").replace("Environment: ", "|").split("|")
\* (the text "Environment: " is one element of the line's rest)
RECURSIVE BeforeEnv(_)
BeforeEnv(s) == IF Len(s) = 0 \/ Head(s) = "Environment: " THEN <<>>
                ELSE <<Head(s)>> \o BeforeEnv(Tail(s))

AfterEnv(s) == SubSeq(s, Len(BeforeEnv(s)) + 2, Len(s))

----------------------------------------------------------------------------
(* The dumps parse_iw_scan is called on *)

\* a hardware address: six pairs of hexadecimal digits, 17 characters
Mac(n) == <<"02", ":", "00", ":", "00", ":", "ab", ":", "00", ":", DigitChar[n + 1]>>

BssLine(n)   == Line("BSS ", Mac(n) \o <<"(on ", "wlo1)">>)
BssLoadLine  == Line("BSS ", <<"Load:">>)
FreqLine(t)  == Line("freq: ", t)
SignalLine   == Line("signal: ", <<"-","5","3",".","0","0"," dBm">>)
SsidLine     == Line("SSID: ", <<"ap">>)
DsLine(c)    == Line("DS Parameter set: channel ", Str(c))
CountryLine  == Line("Country: ", <<"FR", "Environment: ", "Indoor">>)
ChannelsLine == Line("Channels ", <<"[36 - 48] @ 23 dBm">>)
HtOpLine     == Line("HT operation:", <<>>)
VhtOpLine    == Line("VHT operation:", <<>>)
HtCapLine    == Line("HT capabilities:", <<>>)
PrimaryLine(c)  == Line(" * primary channel: ", Str(c))
OffsetLine(t)   == Line(" * secondary channel offset: ", t)
StaWidthLine(t) == Line(" * STA channel width: ", t)
VhtWidthLine(t) == Line(" * channel width: ", t)
Seg1Line(c)  == Line(" * center freq segment 1: ", Str(c))
Seg2Line(c)  == Line(" * center freq segment 2: ", Str(c))

Above  == <<"above">>
Below  == <<"below">>
NoSec  == <<"no secondary">>
AnyTxt == <<"any">>
W20    == <<"20 MHz">>
Vht0   == <<"0", " (20 or 40 MHz)">>
Vht1   == <<"1", " (80 MHz)">>
Vht2   == <<"2", " (160 MHz)">>

Opt(S) == {<<>>} \cup {<<l>> : l \in S}

FreqOpts  == Opt({FreqLine(Str(5180)), FreqLine(Str(5000)),
                  FreqLine(Str(2437) \o <<".","0">>)})
HtSecs    == {<<>>} \cup
             {<<HtOpLine>> \o p \o o \o w :
                p \in Opt({PrimaryLine(36), PrimaryLine(40), PrimaryLine(15)}),
                o \in Opt({OffsetLine(Above), OffsetLine(Below), OffsetLine(NoSec)}),
                w \in Opt({StaWidthLine(AnyTxt), StaWidthLine(W20)})}
VhtSecs   == {<<>>} \cup
             {<<VhtOpLine>> \o w \o a \o b :
                w \in Opt({VhtWidthLine(Vht0), VhtWidthLine(Vht1), VhtWidthLine(Vht2)}),
                a \in Opt({Seg1Line(0), Seg1Line(32), Seg1Line(42), Seg1Line(46)}),
                b \in Opt({Seg2Line(0), Seg2Line(58), Seg2Line(50), Seg2Line(155)})}

\* one block in the order iw prints it, every optional line present or not
RichBlocks ==
    {<<BssLine(1)>> \o f \o <<SignalLine>> \o h \o v :
        f \in FreqOpts, h \in HtSecs, v \in VhtSecs}

\* the blocks of the dumps of several blocks
SmallBlocks ==
    { <<BssLine(2), FreqLine(Str(2437)), SignalLine, SsidLine, DsLine(6),
        CountryLine, ChannelsLine, BssLoadLine>>,
      <<BssLine(3), FreqLine(Str(5180)), SignalLine, DsLine(36), HtCapLine, HtOpLine,
        PrimaryLine(36), OffsetLine(Above), StaWidthLine(AnyTxt)>>,
      <<BssLine(4), FreqLine(Str(5180)), SignalLine, VhtOpLine,
        VhtWidthLine(Vht1), Seg1Line(42), Seg2Line(0)>>,
      <<BssLine(5), FreqLine(Str(5000)), SignalLine>>,
      <<BssLine(6), SignalLine>>,
      <<BssLine(7), FreqLine(Str(5180))>>,
      <<BssLine(8), FreqLine(Str(5180)), SignalLine,
        PrimaryLine(36), OffsetLine(Below), StaWidthLine(AnyTxt),
        VhtWidthLine(Vht1), Seg1Line(42), Seg2Line(58)>> }

RECURSIVE Concat(_)
Concat(n) == IF n = 0 THEN {<<>>}
             ELSE {a \o b : a \in Concat(n - 1), b \in SmallBlocks \cup {<<>>}}

Dumps == RichBlocks \cup Concat(MaxBlocks)

----------------------------------------------------------------------------
(* parse_iw_scan: entry and tokenizer (lines 117-150) *)

NoErr == [type |-> "none", line |-> 0]
Exc(t, l) == [type |-> t, line |-> l]

Init ==
    /\ pc = "start"
    /\ input \in Dumps
    /\ wlans = <<>>
    /\ HTMODE = 0
    /\ idx = 0
    /\ err = NoErr
    /\ df = <<>>
    /\ seen = <<>>

\* lines 117-119
Enter ==
    /\ pc = "start"
    /\ pc' = "tokenize"
    /\ wlans' = <<>>
    /\ HTMODE' = 0
    /\ UNCHANGED <<input, idx, err, df, seen>>

cur == Head(input)

Reading == pc = "tokenize" /\ input # <<>>

\* line 122: the line starts a block
StartsBlock(l) == StartsWith(l, "BSS ") /\ Contains(l.rest, "(on ")

\* the line is consumed and the loop goes on
NextLine == /\ input' = Tail(input)
            /\ seen' = IF StartsBlock(cur) THEN <<cur>> ELSE Append(seen, cur)
            /\ UNCHANGED <<pc, idx, err, df>>

\* an exception leaves parse_iw_scan: nothing is returned
Raise(t, l) == /\ pc' = "raised"
               /\ err' = Exc(t, l)
               /\ UNCHANGED <<input, wlans, HTMODE, idx, df, seen>>

\* wlans[-1][k] = v at source line l: IndexError on an empty list
StoreLast(k, v, l) ==
    IF Len(wlans) = 0
    THEN Raise("IndexError", l)
    ELSE /\ wlans' = [wlans EXCEPT ![Len(wlans)] = Put(@, k, v)]
         /\ NextLine
         /\ UNCHANGED HTMODE

\* lines 122-124
LineBSS ==
    /\ Reading
    /\ StartsBlock(cur)
    /\ LET mac == SubSeq(cur.rest, 1, 11)     \* line[4:21]: the 17 characters
       IN  wlans' = Append(wlans, [MAC |-> mac, ID |-> NoColon(mac)])
    /\ NextLine
    /\ UNCHANGED HTMODE

\* lines 125-126
LineFreq ==
    /\ Reading
    /\ StartsWith(cur, "freq: ")
    /\ StoreLast("freq_20", IntOfFloat(cur.rest), 126)

\* lines 127-128 (line[8:-4] drops the four characters " dBm", one piece)
LineSignal ==
    /\ Reading
    /\ StartsWith(cur, "signal: ")
    /\ StoreLast("Signal", IntOfFloat(SubSeq(cur.rest, 1, Len(cur.rest) - 1)), 128)

\* lines 129-130
LineSSID ==
    /\ Reading
    /\ StartsWith(cur, "SSID: ")
    /\ StoreLast("SSID", cur.rest, 130)

\* lines 131-132
LineDS ==
    /\ Reading
    /\ StartsWith(cur, "DS Parameter set: channel ")
    /\ StoreLast("DS Parameter set", IntOf(cur.rest), 132)

\* lines 133-136
LineCountry ==
    /\ Reading
    /\ StartsWith(cur, "Country: ")
    /\ IF Len(wlans) = 0
       THEN Raise("IndexError", 135)
       ELSE /\ wlans' = [wlans EXCEPT ![Len(wlans)] =
                            Put(Put(@, "Country", BeforeEnv(cur.rest)),
                                "Environment", AfterEnv(cur.rest))]
            /\ NextLine
            /\ UNCHANGED HTMODE

\* lines 137-138
LineChannels ==
    /\ Reading
    /\ StartsWith(cur, "Channels ")
    /\ StoreLast("Channels", cur.rest, 138)

\* lines 139-140
LineHTOperation ==
    /\ Reading
    /\ IsLine(cur, "HT operation:")
    /\ HTMODE' = 1
    /\ NextLine
    /\ UNCHANGED wlans

IsHTField(l) == \/ StartsWith(l, " * primary channel: ")
                \/ StartsWith(l, " * secondary channel offset: ")
                \/ StartsWith(l, " * STA channel width: ")

\* lines 141-144
LineHTField ==
    /\ Reading
    /\ HTMODE = 1 /\ IsHTField(cur)
    /\ StoreLast(AnnotationKey(cur), cur.rest, 144)

\* lines 145-146
LineVHTOperation ==
    /\ Reading
    /\ IsLine(cur, "VHT operation:")
    /\ HTMODE' = 2
    /\ NextLine
    /\ UNCHANGED wlans

IsVHTField(l) == \/ StartsWith(l, " * channel width: ")
                 \/ StartsWith(l, " * center freq segment")

\* lines 147-150
LineVHTField ==
    /\ Reading
    /\ HTMODE = 2 /\ IsVHTField(cur)
    /\ StoreLast(AnnotationKey(cur), cur.rest, 150)

\* no branch of the if / elif chain takes the line
LineIgnored ==
    /\ Reading
    /\ ~(StartsBlock(cur))
    /\ cur.head \notin {"freq: ", "signal: ", "SSID: ", "DS Parameter set: channel ",
                         "Country: ", "Channels "}
    /\ ~IsLine(cur, "HT operation:")
    /\ ~(HTMODE = 1 /\ IsHTField(cur))
    /\ ~IsLine(cur, "VHT operation:")
    /\ ~(HTMODE = 2 /\ IsVHTField(cur))
    /\ NextLine
    /\ UNCHANGED <<wlans, HTMODE>>

\* the for loop of line 120 ends; the loop of line 151 starts
EndOfLines ==
    /\ pc = "tokenize" /\ input = <<>>
    /\ pc' = "resolve"
    /\ idx' = 1
    /\ UNCHANGED <<input, wlans, HTMODE, err, df, seen>>

----------------------------------------------------------------------------
(* parse_iw_scan: the resolver, one iteration of `for net in wlans`        *)
(* (lines 151-211).  The three steps pass on the dict, the local BW and    *)
(* the exception raised so far, if any.                                    *)

Step(n, bw) == [net |-> n, BW |-> bw, exc |-> NoErr]
Fail(n, t, l) == [net |-> n, BW |-> 0, exc |-> Exc(t, l)]

\* lines 152-158
ResolveLegacy(net, plan) ==
    IF ~Has(net, "freq_20") THEN Fail(net, "KeyError", 153)
    ELSE IF FcRows(plan, net["freq_20"]) = {} THEN Fail(net, "IndexError", 153)
    ELSE LET n1 == Put(net, "channel_20", FirstChannelAt(plan, net["freq_20"]))
             n2 == Put(n1, "Fc", net["freq_20"])
         IN  IF ~Has(n2, "Signal") THEN Fail(n2, "KeyError", 156)
             \* dbg is str(net2): the model keeps the dict that the string renders
             ELSE Step(Put(n2, "dbg", Del(n2, "Signal")), 20)

\* line 171: the bonded 40 MHz center
HTBondedFreqMutant(plan, HT0_channel, offset) ==
    Loc(plan, HT0_channel).Fc + (IF offset = Above THEN 10 ELSE 10)
HTBondedFreq(plan, HT0_channel, offset) ==
    Loc(plan, HT0_channel).Fc + (IF offset = Above THEN 10 ELSE -10)

\* lines 159-178
ResolveHT(r, plan) ==
    IF r.exc # NoErr \/ ~Has(r.net, "HT primary channel") THEN r
    ELSE
    LET HT0_channel == IntOf(r.net["HT primary channel"])
    IN  IF ~InIndex(plan, HT0_channel) THEN r      \* line 178: dbgprint only
        ELSE
        \* lines 162-168: both asserts are caught; the keys are deleted
        LET n1 == Del(r.net, "HT primary channel")
            n2 == IF Has(n1, "DS Parameter set") THEN Del(n1, "DS Parameter set") ELSE n1
        IN  IF ~Has(n2, "HT STA channel width") THEN Fail(n2, "KeyError", 169)
            ELSE IF n2["HT STA channel width"] = AnyTxt
            THEN IF ~Has(n2, "HT secondary channel offset") THEN Fail(n2, "KeyError", 171)
                 ELSE LET freq == HTBondedFreq(plan, HT0_channel,
                                               n2["HT secondary channel offset"])
                          n3 == Put(Put(n2, "freq_40", freq), "Fc", freq)
                      IN  Step(Del(Del(n3, "HT secondary channel offset"),
                                   "HT STA channel width"), 40)
            ELSE IF ~Has(n2, "HT secondary channel offset") THEN Fail(n2, "KeyError", 177)
                 ELSE Step(Del(Del(n2, "HT secondary channel offset"),
                               "HT STA channel width"), r.BW)

\* line 183
VHTAppliesMutant(plan, VHT_channel, BW_code) ==
    InIndex(plan, VHT_channel) /\ BW_code > 0
VHTApplies(plan, VHT_channel, BW_code) ==
    InIndex(plan, VHT_channel) /\ VHT_channel > 32 /\ BW_code > 0

\* line 184
VHTWidth(BW_code) == IF BW_code = 1 THEN 80 ELSE 160

\* lines 191-203: the second segment, a row of the plan, against the first
\* segment's center freq and the width BW; other is the case of line 201
Segment2Mutant(chan2, freq, BW) ==
    IF chan2.BW = 160
    THEN [freq |-> chan2.Fc, BW |-> IF BW < 160 THEN 160 ELSE BW, other |-> FALSE]
    ELSE IF chan2.BW = 80 /\ chan2.Fc = freq + 80
    THEN [freq |-> freq + 40, BW |-> BW, other |-> FALSE]
    ELSE [freq |-> freq, BW |-> BW, other |-> TRUE]
Segment2(chan2, freq, BW) ==
    IF chan2.BW = 160
    THEN [freq |-> chan2.Fc, BW |-> IF BW < 160 THEN 160 ELSE BW, other |-> FALSE]
    ELSE IF chan2.BW = 80 /\ chan2.Fc = freq + 80
    THEN [freq |-> freq + 40, BW |-> IF BW < 160 THEN 160 ELSE BW, other |-> FALSE]
    ELSE [freq |-> freq, BW |-> BW, other |-> TRUE]

\* lines 180-210
ResolveVHT(r, plan) ==
    IF \/ r.exc # NoErr
       \/ ~(Has(r.net, "VHT channel width") /\ Has(r.net, "VHT center freq segment 1"))
    THEN r
    ELSE
    LET BW_code == IntOf(<<Head(r.net["VHT channel width"])>>)
        VHT_channel == IntOf(r.net["VHT center freq segment 1"])
        seg2 == /\ Has(r.net, "VHT center freq segment 2")
                /\ InIndex(plan, IntOf(r.net["VHT center freq segment 2"]))
        s == IF seg2
             THEN Segment2(Loc(plan, IntOf(r.net["VHT center freq segment 2"])),
                           Loc(plan, VHT_channel).Fc, VHTWidth(BW_code))
             ELSE [freq |-> Loc(plan, VHT_channel).Fc, BW |-> VHTWidth(BW_code),
                   other |-> FALSE]
        n1 == IF s.other
              THEN Put(r.net, "Fc2_VHT",
                       Loc(plan, IntOf(r.net["VHT center freq segment 2"])).Fc)
              ELSE r.net
        n2 == Put(Put(n1, "freq_VHT", s.freq), "Fc", s.freq)
        after == IF VHTApplies(plan, VHT_channel, BW_code)
                 THEN Step(n2, s.BW) ELSE Step(r.net, r.BW)
    IN  \* line 210: del of the three keys, segment 2 first
        IF ~Has(after.net, "VHT center freq segment 2")
        THEN Fail(after.net, "KeyError", 210)
        ELSE Step(Del(Del(Del(after.net, "VHT center freq segment 2"),
                          "VHT center freq segment 1"), "VHT channel width"),
                  after.BW)

\* the body of the loop of line 151, up to line 211
ResolveOne(net, plan) ==
    LET r == ResolveVHT(ResolveHT(ResolveLegacy(net, plan), plan), plan)
    IN  IF r.exc # NoErr THEN r ELSE Step(Put(r.net, "chanbw", r.BW), r.BW)

ResolveNet ==
    /\ pc = "resolve" /\ idx <= Len(wlans)
    /\ LET r == ResolveOne(wlans[idx], fplan)
       IN  IF r.exc # NoErr
           THEN Raise(r.exc.type, r.exc.line)
           ELSE /\ wlans' = [wlans EXCEPT ![idx] = r.net]
                /\ idx' = idx + 1
                /\ UNCHANGED <<pc, input, HTMODE, err, df, seen>>

----------------------------------------------------------------------------
(* parse_iw_scan: the returned DataFrame (lines 221-226) *)

\* the value of a column in a row whose dict has no such key
NaN == <<"NaN">>

\* pd.DataFrame(wlans): one row per dict, one column per key of any dict
FrameRow(net, columns) == [k \in columns |-> IF Has(net, k) THEN net[k] ELSE NaN]

\* lines 223-224
FrameEdgesMutant(row) ==
    Put(Put(row, "fmin", row["Fc"] - row["chanbw"]), "fmax", row["Fc"] + row["chanbw"])
FrameEdges(row) ==
    Put(Put(row, "fmin", row["Fc"] - row["chanbw"] \div 2),
        "fmax", row["Fc"] + row["chanbw"] \div 2)

\* lines 221-226 (set_index keeps the ID of each row as its label)
BuildFrame ==
    /\ pc = "resolve" /\ idx > Len(wlans)
    /\ LET columns == UNION {DOMAIN wlans[i] : i \in 1..Len(wlans)}
       IN  df' = [i \in 1..Len(wlans) |-> FrameEdges(FrameRow(wlans[i], columns))]
    /\ pc' = "done"
    /\ UNCHANGED <<input, wlans, HTMODE, idx, err, seen>>

----------------------------------------------------------------------------

Next ==
    \/ Enter
    \/ LineBSS \/ LineFreq \/ LineSignal \/ LineSSID \/ LineDS \/ LineCountry
    \/ LineChannels \/ LineHTOperation \/ LineHTField \/ LineVHTOperation
    \/ LineVHTField \/ LineIgnored
    \/ EndOfLines
    \/ ResolveNet
    \/ BuildFrame

Spec == Init /\ [][Next]_vars

----------------------------------------------------------------------------
(* Vocabulary of the properties *)

Blocks == 1..Len(wlans)

\* the block as the tokenizer left it: once resolved, its dict keeps that
\* state (less Signal, plus channel_20 and Fc) under "dbg"
Raw(k) == IF Has(wlans[k], "dbg") THEN wlans[k]["dbg"] ELSE wlans[k]

HTKeys  == {"HT primary channel", "HT secondary channel offset", "HT STA channel width"}
VHTKeys == {"VHT channel width", "VHT center freq segment 1", "VHT center freq segment 2"}

InPlan(f)  == \E i \in 1..Len(fplan) : fplan[i].Fc = f
PlanFc(ch) == Loc(fplan, ch).Fc
PlanBW(ch) == Loc(fplan, ch).BW

\* a block with a signal line, a frequency of the plan and no annotation
PlainBlock(k) ==
    /\ Has(wlans[k], "Signal")
    /\ Has(Raw(k), "freq_20") /\ InPlan(Raw(k)["freq_20"])
    /\ DOMAIN Raw(k) \cap (HTKeys \cup VHTKeys) = {}

OthersPlain(k) == Len(wlans) > 1 /\ \A j \in Blocks \ {k} : PlainBlock(j)

Ended == pc \in {"done", "raised"}

\* C1 (as claimed): a block whose freq_20 is the center of no plan entry does
\* not abort the parse: the batch returns its record with Fc = freq_20 and
\* chanbw = 20, beside the records of the other blocks.
C1_UnknownFrequencyFallsBack ==
    Ended =>
        \A k \in Blocks :
            ( /\ Has(wlans[k], "Signal")
              /\ Has(Raw(k), "freq_20") /\ ~InPlan(Raw(k)["freq_20"])
              /\ DOMAIN Raw(k) \cap (HTKeys \cup VHTKeys) = {}
              /\ OthersPlain(k) )
            => /\ pc = "done"
               /\ Len(df) = Len(wlans)
               /\ df[k]["Fc"] = Raw(k)["freq_20"]
               /\ df[k]["chanbw"] = 20

\* C2 (as claimed): a block with no frequency line never makes the whole
\* parse fail; the other blocks of the dump still yield their records.
C2_MissingFrequencyDoesNotFail ==
    Ended =>
        \A k \in Blocks :
            ( /\ Has(wlans[k], "Signal")
              /\ ~Has(Raw(k), "freq_20")
              /\ DOMAIN Raw(k) \cap (HTKeys \cup VHTKeys) = {}
              /\ OthersPlain(k) )
            => /\ pc = "done"
               /\ \A j \in Blocks \ {k} : \E i \in 1..Len(df) : df[i]["ID"] = wlans[j]["ID"]

\* C3 (as claimed): when the declared HT primary channel is in the plan but
\* is not the channel derived from freq_20, and the STA channel width is
\* "any", the bonded center is derived from freq_20: freq_20 + 10 for the
\* offset "above", freq_20 - 10 otherwise.
C3_BondedCenterFromDerivedChannel ==
    pc = "done" =>
        \A k \in Blocks :
            LET raw == Raw(k)
            IN  ( /\ HTKeys \subseteq DOMAIN raw
                  /\ InIndex(fplan, IntOf(raw["HT primary channel"]))
                  /\ IntOf(raw["HT primary channel"]) # raw["channel_20"]
                  /\ raw["HT STA channel width"] = AnyTxt )
                => /\ Has(wlans[k], "freq_40")
                   /\ df[k]["freq_40"] = raw["freq_20"] +
                        (IF raw["HT secondary channel offset"] = Above THEN 10 ELSE -10)

\* C4 (as claimed): a block with VHT channel-width code 1, a segment 1 that
\* is a plan channel and no segment-2 line yields a record with Fc = the plan
\* center of segment 1 and chanbw = 80.  Stated for the dumps of one block
\* with a frequency of the plan, a signal line, no HT annotation and a
\* segment 1 above channel 32, where nothing else stands in the way.
C4_VHT80WithoutSegment2 ==
    Ended =>
        \A k \in Blocks :
            LET raw == Raw(k)
            IN  ( /\ Len(wlans) = 1
                  /\ Has(wlans[k], "Signal")
                  /\ Has(raw, "freq_20") /\ InPlan(raw["freq_20"])
                  /\ DOMAIN raw \cap HTKeys = {}
                  /\ Has(raw, "VHT channel width")
                  /\ Head(raw["VHT channel width"]) = "1"
                  /\ Has(raw, "VHT center freq segment 1")
                  /\ InIndex(fplan, IntOf(raw["VHT center freq segment 1"]))
                  /\ IntOf(raw["VHT center freq segment 1"]) > 32
                  /\ ~Has(raw, "VHT center freq segment 2") )
                => /\ pc = "done"
                   /\ df[k]["Fc"] = PlanFc(IntOf(raw["VHT center freq segment 1"]))
                   /\ df[k]["chanbw"] = 80

\* C5: in every returned record of a block with no VHT annotation whose
\* declared HT primary channel is the plan channel of freq_20: if the STA
\* channel width is "any", chanbw = 40 and Fc = freq_20 + 10 for the offset
\* "above", freq_20 - 10 for any other offset; if it is not "any",
\* Fc = freq_20 and chanbw = 20.
C5_HTBonding ==
    pc = "done" =>
        \A k \in Blocks :
            LET raw == Raw(k)
            IN  ( /\ DOMAIN raw \cap VHTKeys = {}
                  /\ Has(raw, "HT primary channel")
                  /\ IntOf(raw["HT primary channel"]) = raw["channel_20"]
                  /\ Has(raw, "HT STA channel width") )
                => IF raw["HT STA channel width"] = AnyTxt
                   THEN /\ df[k]["chanbw"] = 40
                        /\ Has(raw, "HT secondary channel offset")
                        /\ df[k]["Fc"] = raw["freq_20"] +
                             (IF raw["HT secondary channel offset"] = Above
                              THEN 10 ELSE -10)
                   ELSE /\ df[k]["chanbw"] = 20
                        /\ df[k]["Fc"] = raw["freq_20"]

\* C5 witness: a returned record bonded below (offset other than "above")
C5_Witness ==
    /\ pc = "done"
    /\ \E k \in Blocks :
        LET raw == Raw(k)
        IN  /\ DOMAIN raw \cap VHTKeys = {}
            /\ HTKeys \subseteq DOMAIN raw
            /\ IntOf(raw["HT primary channel"]) = raw["channel_20"]
            /\ raw["HT STA channel width"] = AnyTxt
            /\ raw["HT secondary channel offset"] = NoSec
            /\ df[k]["Fc"] = 5170 /\ df[k]["chanbw"] = 40

\* the three VHT lines of a block describe two contiguous 80 MHz segments
Contiguous80(raw) ==
    /\ VHTKeys \subseteq DOMAIN raw
    /\ IntOf(<<Head(raw["VHT channel width"])>>) > 0
    /\ InIndex(fplan, IntOf(raw["VHT center freq segment 1"]))
    /\ PlanBW(IntOf(raw["VHT center freq segment 1"])) = 80
    /\ InIndex(fplan, IntOf(raw["VHT center freq segment 2"]))
    /\ PlanBW(IntOf(raw["VHT center freq segment 2"])) = 80
    /\ PlanFc(IntOf(raw["VHT center freq segment 2"]))
         = PlanFc(IntOf(raw["VHT center freq segment 1"])) + 80

\* C6: in every returned record of a block whose VHT segment 1 is an 80 MHz
\* plan channel, whose width code is positive and whose segment 2 is an
\* 80 MHz plan channel centered 80 MHz above segment 1, chanbw = 160 and
\* Fc = the center of segment 1 + 40, whatever the width code.
C6_VHT160Contiguous ==
    pc = "done" =>
        \A k \in Blocks :
            Contiguous80(Raw(k))
            => /\ df[k]["chanbw"] = 160
               /\ df[k]["Fc"] = PlanFc(IntOf(Raw(k)["VHT center freq segment 1"])) + 40

\* C6 witness: such a record with width code 1 (80 MHz), forced to 160 MHz
C6_Witness ==
    /\ pc = "done"
    /\ \E k \in Blocks :
        /\ Contiguous80(Raw(k))
        /\ Head(Raw(k)["VHT channel width"]) = "1"
        /\ df[k]["chanbw"] = 160 /\ df[k]["Fc"] = 5250

\* the VHT rule as the claim states it: both lines present, segment 1 in the
\* plan, width code > 0
VHTRuleAsClaimed(raw) ==
    /\ Has(raw, "VHT channel width") /\ Has(raw, "VHT center freq segment 1")
    /\ InIndex(fplan, IntOf(raw["VHT center freq segment 1"]))
    /\ IntOf(<<Head(raw["VHT channel width"])>>) > 0

\* the VHT rule with the condition of line 183 that segment 1 is above 32
VHTRuleAbove32(raw) ==
    VHTRuleAsClaimed(raw) /\ IntOf(raw["VHT center freq segment 1"]) > 32

\* HT bonding: the declared primary channel is in the plan, the width "any"
HTRule(raw) ==
    /\ Has(raw, "HT primary channel")
    /\ InIndex(fplan, IntOf(raw["HT primary channel"]))
    /\ Has(raw, "HT STA channel width")
    /\ raw["HT STA channel width"] = AnyTxt

\* center and bandwidth of record k both come from the VHT lines
AtVHTLevel(k, raw) ==
    /\ df[k]["chanbw"] \in {80, 160}
    /\ df[k]["chanbw"] = 80 => Head(raw["VHT channel width"]) = "1"
    /\ Has(wlans[k], "freq_VHT") /\ df[k]["Fc"] = df[k]["freq_VHT"]
    /\ df[k]["Fc"] \in
         {PlanFc(IntOf(raw["VHT center freq segment 1"])),
          PlanFc(IntOf(raw["VHT center freq segment 1"])) + 40}
         \cup {fplan[i].Fc : i \in {j \in 1..Len(fplan) : fplan[j].BW = 160}}

\* center and bandwidth of record k both come from the HT lines
AtHTLevel(k, raw) ==
    /\ df[k]["chanbw"] = 40
    /\ ~Has(wlans[k], "freq_VHT")
    /\ Has(wlans[k], "freq_40") /\ df[k]["Fc"] = df[k]["freq_40"]
    /\ df[k]["Fc"] \in {PlanFc(IntOf(raw["HT primary channel"])) + 10,
                        PlanFc(IntOf(raw["HT primary channel"])) - 10}

\* center and bandwidth of record k are the legacy ones
AtLegacyLevel(k, raw) ==
    /\ df[k]["chanbw"] = 20
    /\ ~Has(wlans[k], "freq_VHT") /\ ~Has(wlans[k], "freq_40")
    /\ df[k]["Fc"] = raw["freq_20"]

\* C7 (as claimed): every returned record follows VHT > HT > legacy, the VHT
\* rule applying when segment 1 is in the plan and the width code is > 0:
\* then center and bandwidth are both the VHT ones; otherwise, if HT bonding
\* applied, both the HT ones; otherwise freq_20 and 20.
C7_PrecedenceAsClaimed ==
    pc = "done" =>
        \A k \in Blocks :
            LET raw == Raw(k)
            IN  IF VHTRuleAsClaimed(raw) THEN AtVHTLevel(k, raw)
                ELSE IF HTRule(raw) THEN AtHTLevel(k, raw)
                ELSE AtLegacyLevel(k, raw)

\* C7 (amended): every returned record follows VHT > HT > legacy, the VHT rule
\* applying when segment 1 is a plan channel above 32 and the width code is
\* > 0: then center and bandwidth are both the VHT ones, even when an HT
\* bonded center was computed; otherwise, if HT bonding applied, both are the
\* HT ones (40 MHz); otherwise Fc = freq_20 and chanbw = 20.  No record takes
\* its center from one level and its bandwidth from another.
C7_Precedence ==
    pc = "done" =>
        \A k \in Blocks :
            LET raw == Raw(k)
            IN  IF VHTRuleAbove32(raw) THEN AtVHTLevel(k, raw)
                ELSE IF HTRule(raw) THEN AtHTLevel(k, raw)
                ELSE AtLegacyLevel(k, raw)

\* C7 witness: a returned record where both rules applied: the HT bonded
\* center was computed (freq_40) and the VHT values override it
C7_Witness ==
    /\ pc = "done"
    /\ \E k \in Blocks :
        /\ VHTRuleAbove32(Raw(k)) /\ HTRule(Raw(k))
        /\ Has(wlans[k], "freq_40") /\ df[k]["freq_40"] = 5190
        /\ df[k]["Fc"] = 5210 /\ df[k]["chanbw"] = 80

\* C8: every returned record has chanbw in {20, 40, 80, 160},
\* fmin = Fc - chanbw/2 and fmax = Fc + chanbw/2, hence fmin < Fc < fmax and
\* fmax - fmin = chanbw.
C8_Edges ==
    pc = "done" =>
        /\ Len(df) = Len(wlans)
        /\ \A k \in 1..Len(df) :
            /\ df[k]["chanbw"] \in {20, 40, 80, 160}
            /\ 2 * (df[k]["Fc"] - df[k]["fmin"]) = df[k]["chanbw"]
            /\ 2 * (df[k]["fmax"] - df[k]["Fc"]) = df[k]["chanbw"]
            /\ df[k]["fmin"] < df[k]["Fc"] /\ df[k]["Fc"] < df[k]["fmax"]
            /\ df[k]["fmax"] - df[k]["fmin"] = df[k]["chanbw"]

\* C8 witness: a returned batch of two records of different bandwidths
C8_Witness ==
    /\ pc = "done"
    /\ \E j, k \in 1..Len(df) :
        /\ df[j]["chanbw"] = 40 /\ df[j]["fmin"] = 5170 /\ df[j]["fmax"] = 5210
        /\ df[k]["chanbw"] = 80 /\ df[k]["fmin"] = 5170 /\ df[k]["fmax"] = 5250

\* C9 (as claimed): no returned record holds an intermediate annotation key,
\* also when the declared HT primary channel is not in the plan.  Stated for
\* the blocks with the three HT lines, a declared primary channel that is
\* not in the plan and no VHT line.
C9_NoAnnotationKeyReturned ==
    pc = "done" =>
        \A k \in Blocks :
            ( /\ HTKeys \subseteq DOMAIN Raw(k)
              /\ ~InIndex(fplan, IntOf(Raw(k)["HT primary channel"]))
              /\ DOMAIN Raw(k) \cap VHTKeys = {} )
            => DOMAIN df[k] \cap (HTKeys \cup VHTKeys) = {}

GapFree(plan) ==
    \A i \in 1..Len(plan) :
        /\ plan[i].channel < 70 \/ plan[i].channel > 94
        /\ plan[i].fmax <= 5350 \/ plan[i].fmin >= 5470

UniqueChannels(plan) ==
    Cardinality({plan[i].channel : i \in 1..Len(plan)}) = Len(plan)

PlanGapFree == GapFree(fplan)
PlanChannelsUnique == UniqueChannels(fplan)

\* C10: the table built by wifi_channel_plan has no entry with a channel
\* number in [70,94], no two entries with the same channel number, and no
\* entry whose range (fmin, fmax) overlaps the region strictly between 5350
\* and 5470 MHz.
C10_PlanGap == pc # "start" => PlanGapFree /\ PlanChannelsUnique

\* C10 witness: the table is built and has the entries that border the gap,
\* on both sides, at each bandwidth it keeps there
C10_Witness ==
    /\ pc = "tokenize"
    /\ \E i, j \in 1..Len(fplan) :
        /\ fplan[i].channel = 68 /\ fplan[i].fmax = 5350
        /\ fplan[j].channel = 96 /\ fplan[j].fmin = 5470
    /\ \E i \in 1..Len(fplan) : fplan[i].channel = 114 /\ fplan[i].BW = 160

\* an "HT operation:" header was read in the current block, and no
\* "VHT operation:" header after it
HTScopeOpen ==
    \E i \in 1..Len(seen) :
        /\ IsLine(seen[i], "HT operation:")
        /\ \A j \in (i + 1)..Len(seen) : ~IsLine(seen[j], "VHT operation:")

\* a "VHT operation:" header was read in the current block
VHTScopeOpen == \E i \in 1..Len(seen) : IsLine(seen[i], "VHT operation:")

\* this step of the tokenizer stores the annotation of the line it reads in
\* the current block
StoresField ==
    /\ Reading /\ pc' = "tokenize"
    /\ input' = Tail(input)
    /\ Len(wlans) > 0 /\ Len(wlans') = Len(wlans)
    /\ wlans' # wlans
    /\ Has(wlans'[Len(wlans)], AnnotationKey(cur))
    /\ wlans'[Len(wlans)][AnnotationKey(cur)] = cur.rest

\* C11 (as claimed): sub-section scope never leaks across blocks: an HT
\* annotation line is stored in a block only if an "HT operation:" header
\* was read earlier in that same block with no "VHT operation:" header in
\* between, and a VHT annotation line only if a "VHT operation:" header was
\* read earlier in that same block.
C11_ScopeWithinBlock ==
    [][ /\ (Reading /\ IsHTField(cur) /\ StoresField) => HTScopeOpen
        /\ (Reading /\ IsVHTField(cur) /\ StoresField) => VHTScopeOpen ]_vars

====
